---- MODULE Spec2Model ----
(***************************************************************************)
(* pam_recent: a PAM session module that adds or removes the address of    *)
(* the connecting client to or from an iptables "recent" list by writing   *)
(* one directive line to the list's pseudo-file under /proc/net.           *)
(*                                                                         *)
(* C strings are sequences of one-character strings, so that strcmp,       *)
(* strncasecmp, strchr, pointer arithmetic on char*, snprintf and          *)
(* inet_ntop are computed on characters as the C code computes them.       *)
(***************************************************************************)
EXTENDS Integers, Sequences, FiniteSets, TLC

VARIABLES
    pc,          \* position of the session hook: "idle" between invocations
    op,          \* entry point of the current/last invocation
    argv,        \* argument vector of the invocation (argc == Len(argv))
    remove,      \* int remove
    dbname,      \* const char *dbname
    fname,       \* char fname[PATH_MAX]
    rhostname,   \* char *rhostname (PAM_RHOST item)
    rhost,       \* struct hostent *rhost
    address,     \* char address[128]
    ret,         \* return value of the invocation
    syslog,      \* the record passed to pam_syslog by the invocation
    events,      \* library/system calls made by the invocation, in order
    written,     \* directive lines the invocation committed to pseudo-files
    prevWritten  \* the same, for the invocation before it

vars == <<pc, op, argv, remove, dbname, fname, rhostname, rhost, address,
          ret, syslog, events, written, prevWritten>>

-----------------------------------------------------------------------------
(* Compiled-in literals                                                    *)

ACTION_REMOVE == <<"-">>
ACTION_ADD == <<"+">>
NAME == <<"D","E","F","A","U","L","T">>
LOCOLD == <<"/","p","r","o","c","/","n","e","t","/","i","p","t","_","r","e","c","e","n","t">>
LOCNEW == <<"/","p","r","o","c","/","n","e","t","/","x","t","_","r","e","c","e","n","t">>
PATH_MAX == 4096
ADDRESS_SIZE == 128

PAM_SUCCESS == "PAM_SUCCESS"
PAM_SESSION_ERR == "PAM_SESSION_ERR"

NULL == <<"NULL">>                     \* the null char*; no C string equals it
NULLHOST == [h_addrtype |-> "NULL", h_addr |-> <<>>]   \* the null hostent*
UNSET == <<"UNSET">>                   \* an automatic variable not yet assigned

-----------------------------------------------------------------------------
(* libc string functions                                                   *)

Min(a, b) == IF a < b THEN a ELSE b

Take(s, n) == SubSeq(s, 1, Min(n, Len(s)))
Drop(s, n) == SubSeq(s, n + 1, Len(s))          \* the C expression s + n

UpperAlpha == <<"A","B","C","D","E","F","G","H","I","J","K","L","M",
                "N","O","P","Q","R","S","T","U","V","W","X","Y","Z">>
LowerAlpha == <<"a","b","c","d","e","f","g","h","i","j","k","l","m",
                "n","o","p","q","r","s","t","u","v","w","x","y","z">>

tolower(c) ==
    IF \E i \in 1..26 : UpperAlpha[i] = c
    THEN LowerAlpha[CHOOSE i \in 1..26 : UpperAlpha[i] = c]
    ELSE c

LowerStr(s) == [i \in 1..Len(s) |-> tolower(s[i])]

\* strcmp(a, b) == 0
strcmp0(a, b) == a = b

\* strncmp(a, b, n) == 0: the strings agree up to n characters or their end
strncmp0(a, b, n) == Take(a, n) = Take(b, n)

\* strncasecmp(a, b, n) == 0
strncasecmp0(a, b, n) == LowerStr(Take(a, n)) = LowerStr(Take(b, n))

\* strchr(s, c) != NULL
strchr(s, c) == \E i \in 1..Len(s) : s[i] = c

\* snprintf(buf, size, "%s/%s", a, b): at most size - 1 characters are stored
snprintf_path(size, a, b) == Take(a \o <<"/">> \o b, size - 1)

-----------------------------------------------------------------------------
(* Number formatting and parsing                                           *)

DecDigits == <<"0","1","2","3","4","5","6","7","8","9">>
HexDigits == <<"0","1","2","3","4","5","6","7","8","9","a","b","c","d","e","f">>

RECURSIVE FmtU(_)
\* printf("%u", n)
FmtU(n) == IF n < 10 THEN <<DecDigits[n + 1]>>
           ELSE FmtU(n \div 10) \o <<DecDigits[(n % 10) + 1]>>

RECURSIVE FmtX(_)
\* printf("%x", n)
FmtX(n) == IF n < 16 THEN <<HexDigits[n + 1]>>
           ELSE FmtX(n \div 16) \o <<HexDigits[(n % 16) + 1]>>

IsDecDigit(c) == \E i \in 1..10 : DecDigits[i] = c
DigitVal(c) == (CHOOSE i \in 1..10 : DecDigits[i] = c) - 1

RECURSIVE ParseU(_)
\* value of a non-empty run of decimal digits
ParseU(s) == IF Len(s) = 1 THEN DigitVal(s[1])
             ELSE 10 * ParseU(SubSeq(s, 1, Len(s) - 1)) + DigitVal(s[Len(s)])

RECURSIVE SplitDots(_)
\* the fields of s between its dots
SplitDots(s) ==
    IF ~strchr(s, ".") THEN <<s>>
    ELSE LET i == CHOOSE k \in 1..Len(s) :
                      s[k] = "." /\ \A j \in 1..(k - 1) : s[j] # "."
         IN <<SubSeq(s, 1, i - 1)>> \o SplitDots(Drop(s, i))

\* a decimal octet without a leading zero (a leading zero makes it octal)
IsOctet(s) ==
    /\ Len(s) \in 1..3
    /\ \A i \in 1..Len(s) : IsDecDigit(s[i])
    /\ (Len(s) > 1 => s[1] # "0")
    /\ ParseU(s) <= 255

\* the name is an IPv4 address in four-part decimal dotted notation
IsDottedQuad(s) ==
    /\ s # NULL
    /\ LET f == SplitDots(s) IN Len(f) = 4 /\ \A i \in 1..4 : IsOctet(f[i])

ParseDottedQuad(s) == LET f == SplitDots(s) IN [i \in 1..4 |-> ParseU(f[i])]

-----------------------------------------------------------------------------
(* libc: inet_ntop                                                         *)

\* inet_ntop4: "%u.%u.%u.%u"
inet_ntop4(b) ==
    FmtU(b[1]) \o <<".">> \o FmtU(b[2]) \o <<".">> \o FmtU(b[3]) \o <<".">> \o FmtU(b[4])

\* the eight 16-bit words of a 16-byte address
Words(b) == [i \in 1..8 |-> b[2 * i - 1] * 256 + b[2 * i]]

\* length of the run of zero words starting at word i
ZeroRun(w, i) ==
    IF w[i] # 0 THEN 0
    ELSE LET e == CHOOSE k \in i..8 :
                      /\ \A j \in i..k : w[j] = 0
                      /\ (k = 8 \/ w[k + 1] # 0)
         IN e - i + 1

\* the first longest run of at least two zero words: <<base, len>>, or <<0, 0>>
BestRun(w) ==
    LET m == CHOOSE n \in 0..8 :
                 /\ \E i \in 1..8 : ZeroRun(w, i) = n
                 /\ \A i \in 1..8 : ZeroRun(w, i) <= n
    IN IF m < 2 THEN <<0, 0>>
       ELSE <<CHOOSE i \in 1..8 :
                  /\ ZeroRun(w, i) = m
                  /\ \A j \in 1..(i - 1) : ZeroRun(w, j) < m, m>>

RECURSIVE Ntop6From(_, _, _, _)
Ntop6From(b, w, best, i) ==
    IF i > 8
    THEN IF best[1] # 0 /\ best[1] + best[2] = 9 THEN <<":">> ELSE <<>>
    ELSE IF best[1] # 0 /\ i >= best[1] /\ i < best[1] + best[2]
    THEN (IF i = best[1] THEN <<":">> ELSE <<>>) \o Ntop6From(b, w, best, i + 1)
    ELSE (IF i # 1 THEN <<":">> ELSE <<>>) \o
         (IF i = 7 /\ best[1] = 1 /\ (best[2] = 6 \/ (best[2] = 5 /\ w[6] = 65535))
          THEN inet_ntop4(SubSeq(b, 13, 16))     \* encapsulated IPv4; break
          ELSE FmtX(w[i]) \o Ntop6From(b, w, best, i + 1))

inet_ntop6(b) == LET w == Words(b) IN Ntop6From(b, w, BestRun(w), 1)

\* inet_ntop(af, src, dst, size): the text stored in dst, or NULL on an
\* unsupported family (EAFNOSUPPORT) or a buffer that is too small (ENOSPC)
inet_ntop(af, src, size) ==
    IF af \notin {"AF_INET", "AF_INET6"} THEN NULL
    ELSE LET text == IF af = "AF_INET" THEN inet_ntop4(src) ELSE inet_ntop6(src)
         IN IF Len(text) + 1 > size THEN NULL ELSE text

-----------------------------------------------------------------------------
(* The resolver                                                            *)

Addr4_A == <<203, 0, 113, 5>>
Addr4_B == <<192, 0, 2, 7>>
Addr6_A == <<32, 1, 13, 184, 0, 0, 0, 0, 0, 0, 0, 0, 0, 0, 0, 1>>   \* 2001:db8::1

Mapped(a) == <<0, 0, 0, 0, 0, 0, 0, 0, 0, 0, 255, 255>> \o a

Hostent(af, a) == [h_addrtype |-> af, h_addr |-> a]

\* what a name or address lookup can answer: addresses of the family the
\* resolver is configured for (AF_INET6 under the resolver option inet6)
LookupAnswers ==
    { Hostent("AF_INET", Addr4_A), Hostent("AF_INET", Addr4_B),
      Hostent("AF_INET6", Addr6_A), Hostent("AF_INET6", Mapped(Addr4_A)) }

\* gethostbyname(name): the set of results the call can have.  A dotted-quad
\* name is copied without lookup (mapped into AF_INET6 under the resolver
\* option inet6); the empty name has no address; any other name is looked up
\* and may fail (NULL).
gethostbyname(name) ==
    IF IsDottedQuad(name)
    THEN { Hostent("AF_INET", ParseDottedQuad(name)),
           Hostent("AF_INET6", Mapped(ParseDottedQuad(name))) }
    ELSE IF name = <<>> THEN {NULLHOST}
    ELSE {NULLHOST} \cup LookupAnswers

-----------------------------------------------------------------------------
(* Inputs the framework and the environment can supply                      *)

MYLIMIT == <<"M","Y","L","I","M","I","T">>
TEXT4_A == <<"2","0","3",".","0",".","1","1","3",".","5">>      \* 203.0.113.5
HOSTNAME == <<"h","o","s","t">>
COLONS == <<":",":">>
FFFF_LC == <<"f","f","f","f",":">>
FFFF_UC == <<"F","F","F","F",":">>
ZEROS4 == <<"0",":","0",":","0",":","0",":">>
ZEROS5 == ZEROS4 \o <<"0",":">>
LINKLOCAL == <<"f","e","8","0",":",":","1">>                    \* fe80::1

\* argument vectors of the module line in the PAM configuration
ArgLists ==
    { <<>>,
      <<ACTION_ADD>>, <<ACTION_REMOVE>>, <<<<"+","+">>>>, <<<<>>>>, <<<<"a","d","d">>>>,
      <<ACTION_ADD, MYLIMIT>>, <<ACTION_REMOVE, MYLIMIT>>, <<<<"-","-">>, MYLIMIT>>,
      <<ACTION_ADD, MYLIMIT, MYLIMIT>>, <<<<"a","d","d">>, MYLIMIT, MYLIMIT>> }

\* values of the PAM_RHOST item
RhostItems ==
    { NULL, <<>>, TEXT4_A, HOSTNAME,
      COLONS \o TEXT4_A, COLONS \o FFFF_LC \o TEXT4_A, COLONS \o FFFF_UC \o TEXT4_A,
      COLONS \o FFFF_LC \o HOSTNAME,
      ZEROS5 \o TEXT4_A, ZEROS5 \o <<"0",":">> \o TEXT4_A,
      ZEROS5 \o FFFF_LC \o TEXT4_A, ZEROS5 \o FFFF_UC \o TEXT4_A,
      ZEROS4 \o TEXT4_A, LINKLOCAL }

-----------------------------------------------------------------------------
(* pam_sm_open_session: the computations of its statements                  *)

\* ArgcOk with the upper limit forgotten
ArgcOk_NoUpper(argc) == ~(argc < 1)

\* !(argc<1 || argc>2)
ArgcOk(argc) == ~(argc < 1 \/ argc > 2)

\* the value given to remove by the strcmp chain, -1 when neither matches
ParseAction(arg) ==
    IF strcmp0(arg, ACTION_ADD) THEN 0
    ELSE IF strcmp0(arg, ACTION_REMOVE) THEN 1
    ELSE -1

\* dbname=(argc==2)?argv[1]:NAME
DbName(a) == IF Len(a) = 2 THEN a[2] ELSE NAME

\* SelectFname with the result of access() read as a truth value
SelectFname_Inverted(accessOk, db) ==
    IF accessOk THEN snprintf_path(PATH_MAX, LOCOLD, db)
    ELSE snprintf_path(PATH_MAX, LOCNEW, db)

\* fname after the probe: accessOk is access(LOCNEW/dbname, F_OK) == 0
SelectFname(accessOk, db) ==
    IF ~accessOk THEN snprintf_path(PATH_MAX, LOCOLD, db)
    ELSE snprintf_path(PATH_MAX, LOCNEW, db)

\* ExtractEmbedded comparing "ffff:" with strncmp instead of strncasecmp
ExtractEmbedded_CaseSensitive(name) ==
    IF strncmp0(name, <<":",":">>, 2)
    THEN LET p == Drop(name, 2)
         IN IF strncmp0(p, <<"f","f","f","f",":">>, 5) THEN Drop(p, 5) ELSE p
    ELSE IF strncasecmp0(name, <<"0",":","0",":","0",":","0",":","0",":">>, 10)
    THEN LET p == Drop(name, 10)
         IN IF strncasecmp0(p, <<"0",":">>, 2) THEN Drop(p, 2)
            ELSE IF strncmp0(p, <<"f","f","f","f",":">>, 5) THEN Drop(p, 5)
            ELSE p
    ELSE NULL

\* the pointer p computed from an unresolvable name that holds a colon
ExtractEmbedded(name) ==
    IF strncmp0(name, <<":",":">>, 2)
    THEN LET p == Drop(name, 2)
         IN IF strncasecmp0(p, <<"f","f","f","f",":">>, 5) THEN Drop(p, 5) ELSE p
    ELSE IF strncasecmp0(name, <<"0",":","0",":","0",":","0",":","0",":">>, 10)
    THEN LET p == Drop(name, 10)
         IN IF strncasecmp0(p, <<"0",":">>, 2) THEN Drop(p, 2)
            ELSE IF strncasecmp0(p, <<"f","f","f","f",":">>, 5) THEN Drop(p, 5)
            ELSE p
    ELSE NULL

\* Directive with the two markers exchanged
Directive_Swapped(rm, addr) ==
    (IF rm # 0 THEN ACTION_ADD ELSE ACTION_REMOVE) \o addr \o <<"\n">>

\* fprintf(f,"%s%s\n", remove?ACTION_REMOVE:ACTION_ADD, address)
Directive(rm, addr) ==
    (IF rm # 0 THEN ACTION_REMOVE ELSE ACTION_ADD) \o addr \o <<"\n">>

\* Succ with the address resolved before the path is selected
Succ_ResolveFirst(s) ==
    CASE s = "args" -> "getitem"
      [] s = "getitem" -> "resolve"
      [] s = "resolve" -> "fallback"
      [] s = "fallback" -> "ntop"
      [] s = "ntop" -> "probe"
      [] s = "probe" -> "open"
      [] s = "open" -> "write"

\* the order of the statements of the function body: the step after s
Succ(s) ==
    CASE s = "args" -> "probe"
      [] s = "probe" -> "getitem"
      [] s = "getitem" -> "resolve"
      [] s = "resolve" -> "fallback"
      [] s = "fallback" -> "ntop"
      [] s = "ntop" -> "open"
      [] s = "open" -> "write"

Event(c, a, ok) == [call |-> c, arg |-> a, ok |-> ok]

NoLog == [pri |-> "none", msg |-> "none"]
UNSETHOST == [h_addrtype |-> "UNSET", h_addr |-> <<>>]

\* return code, after pam_syslog(pamh, pri, msg, ...)
Return(code, pri, msg) ==
    /\ ret' = code
    /\ syslog' = [pri |-> pri, msg |-> msg]
    /\ pc' = "idle"

Continue(s) ==
    /\ pc' = Succ(s)
    /\ UNCHANGED <<ret, syslog>>

-----------------------------------------------------------------------------
(* State machine                                                           *)

Init ==
    /\ pc = "idle"
    /\ op = "none"
    /\ argv = <<>>
    /\ remove = -1
    /\ dbname = UNSET
    /\ fname = UNSET
    /\ rhostname = UNSET
    /\ rhost = UNSETHOST
    /\ address = UNSET
    /\ ret = "none"
    /\ syslog = NoLog
    /\ events = <<>>
    /\ written = <<>>
    /\ prevWritten = <<>>

\* Entry of pam_sm_open_session with a fresh frame, the argument count
\* check, the action argument and the optional list name.
OpenArgs ==
    /\ pc = "idle"
    /\ \E a \in ArgLists :
        /\ op' = "open"
        /\ argv' = a
        /\ events' = <<>>
        /\ prevWritten' = written
        /\ written' = <<>>
        /\ fname' = UNSET
        /\ rhostname' = UNSET
        /\ rhost' = UNSETHOST
        /\ address' = UNSET
        /\ IF ~ArgcOk(Len(a))
           THEN /\ remove' = -1
                /\ dbname' = UNSET
                /\ Return(PAM_SESSION_ERR, "LOG_ERR", "expected 1 or 2 arguments but got %d")
           ELSE IF ParseAction(a[1]) = -1
           THEN /\ remove' = -1
                /\ dbname' = UNSET
                /\ Return(PAM_SESSION_ERR, "LOG_ERR", "expected \"%s\" or \"%s\" as argument, got \"%s\"")
           ELSE /\ remove' = ParseAction(a[1])
                /\ dbname' = DbName(a)
                /\ pc' = Succ("args")
                /\ ret' = "none"
                /\ syslog' = NoLog

\* The existence probe of the xt_recent entry and the choice of fname.
SelectPath ==
    /\ pc = "probe"
    /\ \E accessOk \in BOOLEAN :
        /\ fname' = SelectFname(accessOk, dbname)
        /\ events' = Append(events,
                Event("access", snprintf_path(PATH_MAX, LOCNEW, dbname), accessOk))
    /\ Continue("probe")
    /\ UNCHANGED <<op, argv, remove, dbname, rhostname, rhost, address, written, prevWritten>>

\* pam_get_item(pamh, PAM_RHOST, &rhostname) and the NULL check.
GetRhost ==
    /\ pc = "getitem"
    /\ \E r \in {PAM_SUCCESS, "PAM_SYSTEM_ERR"} :
       \E item \in (IF r = PAM_SUCCESS THEN RhostItems ELSE {UNSET}) :
        /\ rhostname' = item
        /\ events' = Append(events, Event("pam_get_item", <<>>, r = PAM_SUCCESS))
        /\ IF r # PAM_SUCCESS
           THEN Return(PAM_SESSION_ERR, "LOG_ERR", "could not get PAM_RHOST: %s")
           ELSE IF item = NULL
           THEN Return(PAM_SESSION_ERR, "LOG_ERR", "no PAM_RHOST, not a network login")
           ELSE Continue("getitem")
    /\ UNCHANGED <<op, argv, remove, dbname, fname, rhost, address, written, prevWritten>>

\* rhost=gethostbyname(rhostname)
Resolve ==
    /\ pc = "resolve"
    /\ \E h \in gethostbyname(rhostname) :
        /\ rhost' = h
        /\ events' = Append(events, Event("gethostbyname", rhostname, h # NULLHOST))
    /\ Continue("resolve")
    /\ UNCHANGED <<op, argv, remove, dbname, fname, rhostname, address, written, prevWritten>>

\* The extraction of an IPv4 address in IPv6 mixed notation, the second
\* lookup, and the check of the result.
Fallback ==
    /\ pc = "fallback"
    /\ LET p == IF rhost = NULLHOST /\ strchr(rhostname, ":")
                THEN ExtractEmbedded(rhostname) ELSE NULL
       IN \E h \in (IF p # NULL THEN gethostbyname(p) ELSE {rhost}) :
            /\ rhost' = h
            /\ events' = IF p # NULL
                         THEN Append(events, Event("gethostbyname", p, h # NULLHOST))
                         ELSE events
            /\ IF h = NULLHOST
               THEN Return(PAM_SESSION_ERR, "LOG_ERR", "could not lookup address for %s: %d")
               ELSE Continue("fallback")
    /\ UNCHANGED <<op, argv, remove, dbname, fname, rhostname, address, written, prevWritten>>

\* inet_ntop(rhost->h_addrtype, rhost->h_addr_list[0], address, sizeof(address))
Ntop ==
    /\ pc = "ntop"
    /\ LET t == inet_ntop(rhost.h_addrtype, rhost.h_addr, ADDRESS_SIZE)
       IN /\ events' = Append(events, Event("inet_ntop", <<>>, t # NULL))
          /\ IF t = NULL
             THEN /\ UNCHANGED address
                  /\ Return(PAM_SESSION_ERR, "LOG_ERR", "address conversion error: %s")
             ELSE /\ address' = t
                  /\ Continue("ntop")
    /\ UNCHANGED <<op, argv, remove, dbname, fname, rhostname, rhost, written, prevWritten>>

\* f=fopen(fname,"w")
OpenFile ==
    /\ pc = "open"
    /\ \E ok \in BOOLEAN :
        /\ events' = Append(events, Event("fopen", fname, ok))
        /\ IF ~ok
           THEN Return(PAM_SESSION_ERR, "LOG_ERR", "can't open %s: %s")
           ELSE Continue("open")
    /\ UNCHANGED <<op, argv, remove, dbname, fname, rhostname, rhost, address, written, prevWritten>>

\* WriteClose with a line buffer that keeps what the invocation before wrote
WriteClose_StaleBuffer ==
    /\ pc = "write"
    /\ \E flushed \in BOOLEAN :
        /\ written' = IF flushed
                      THEN Append(written,
                               [path |-> fname,
                                line |-> (IF prevWritten = <<>> THEN <<>>
                                          ELSE prevWritten[1].line)
                                         \o Directive(remove, address),
                                remove |-> remove,
                                addr |-> rhost])
                      ELSE written
        /\ events' = Append(events, Event("fclose", fname, flushed))
    /\ Return(PAM_SUCCESS, "LOG_DEBUG",
              IF remove # 0 THEN "removed %s/%s from list %s" ELSE "added %s/%s to list %s")
    /\ UNCHANGED <<op, argv, remove, dbname, fname, rhostname, rhost, address, prevWritten>>

\* fprintf into the stream, fclose flushing it to the pseudo-file (the
\* results of both are ignored), the debug record and the return.
WriteClose ==
    /\ pc = "write"
    /\ \E flushed \in BOOLEAN :
        /\ written' = IF flushed
                      THEN Append(written, [path |-> fname,
                                            line |-> Directive(remove, address),
                                            remove |-> remove,
                                            addr |-> rhost])
                      ELSE written
        /\ events' = Append(events, Event("fclose", fname, flushed))
    /\ Return(PAM_SUCCESS, "LOG_DEBUG",
              IF remove # 0 THEN "removed %s/%s from list %s" ELSE "added %s/%s to list %s")
    /\ UNCHANGED <<op, argv, remove, dbname, fname, rhostname, rhost, address, prevWritten>>

\* CloseSession checking its argument count as the open hook does
CloseSession_ChecksArgs ==
    /\ pc = "idle"
    /\ \E a \in ArgLists :
        /\ argv' = a
        /\ ret' = IF ArgcOk(Len(a)) THEN PAM_SUCCESS ELSE PAM_SESSION_ERR
    /\ op' = "close"
    /\ events' = <<>>
    /\ syslog' = NoLog
    /\ UNCHANGED <<pc, remove, dbname, fname, rhostname, rhost, address,
                   written, prevWritten>>

\* pam_sm_close_session: called with any argument vector, returns at once
CloseSession ==
    /\ pc = "idle"
    /\ \E a \in ArgLists : argv' = a
    /\ op' = "close"
    /\ events' = <<>>
    /\ ret' = PAM_SUCCESS
    /\ syslog' = NoLog
    /\ UNCHANGED <<pc, remove, dbname, fname, rhostname, rhost, address,
                   written, prevWritten>>

Next ==
    \/ OpenArgs
    \/ SelectPath
    \/ GetRhost
    \/ Resolve
    \/ Fallback
    \/ Ntop
    \/ OpenFile
    \/ WriteClose
    \/ CloseSession

Spec == Init /\ [][Next]_vars

-----------------------------------------------------------------------------
(* Properties                                                              *)

\* an invocation of pam_sm_open_session has returned
Completed == op = "open" /\ pc = "idle"

Markers == {<<"+">>, <<"-">>}
ValidArgv == Len(argv) \in {1, 2} /\ argv[1] \in Markers
ListName == IF Len(argv) = 2 THEN argv[2] ELSE <<"D","E","F","A","U","L","T">>
NewPath == <<"/","p","r","o","c","/","n","e","t","/","x","t","_","r","e","c","e","n","t","/">> \o ListName
LegacyPath == <<"/","p","r","o","c","/","n","e","t","/","i","p","t","_","r","e","c","e","n","t","/">> \o ListName

IsQuery(e) == e.call = "gethostbyname"
Queries == SelectSeq(events, IsQuery)
Calls(c) == {i \in DOMAIN events : events[i].call = c}
LastEvent == events[Len(events)]

\* the presentation form of the addresses the resolver can answer
TEXT4_B == <<"1","9","2",".","0",".","2",".","7">>
TEXT6_A == <<"2","0","0","1",":","d","b","8",":",":","1">>
TEXT6_MAPPED_A == <<":",":","f","f","f","f",":">> \o TEXT4_A
Presentation(h) ==
    CASE h = Hostent("AF_INET", Addr4_A) -> TEXT4_A
      [] h = Hostent("AF_INET", Addr4_B) -> TEXT4_B
      [] h = Hostent("AF_INET6", Addr6_A) -> TEXT6_A
      [] h = Hostent("AF_INET6", Mapped(Addr4_A)) -> TEXT6_MAPPED_A

\* C1: every invocation of the open hook either returns success having
\* written exactly one directive line, or returns the session error having
\* written nothing; it never returns success with no line written and never
\* writes more than one line.
C1_AllOrNothing ==
    /\ Len(written) <= 1
    /\ Completed =>
         \/ ret = PAM_SUCCESS /\ Len(written) = 1
         \/ ret = PAM_SESSION_ERR /\ written = <<>>

\* C2: the line an invocation writes is argv[0] followed by the presentation
\* form of the first resolved address and a newline, and it goes to the
\* pseudo-file of the list argv[1], or of DEFAULT without a second argument;
\* ["+"] with 203.0.113.5 writes "+203.0.113.5\n" to DEFAULT and
\* ["-","MYLIMIT"] writes "-203.0.113.5\n" to MYLIMIT.
C2_DirectiveLine ==
    (Completed /\ written # <<>>) =>
        /\ ValidArgv
        /\ Len(written) = 1
        /\ written[1].line = argv[1] \o Presentation(rhost) \o <<"\n">>
        /\ written[1].path \in {NewPath, LegacyPath}
        /\ (argv = <<<<"+">>>> /\ rhost = Hostent("AF_INET", <<203, 0, 113, 5>>)) =>
              /\ written[1].line = <<"+","2","0","3",".","0",".","1","1","3",".","5","\n">>
              /\ written[1].path \in
                   { <<"/","p","r","o","c","/","n","e","t","/","x","t","_","r","e","c","e","n","t","/","D","E","F","A","U","L","T">>,
                     <<"/","p","r","o","c","/","n","e","t","/","i","p","t","_","r","e","c","e","n","t","/","D","E","F","A","U","L","T">> }
        /\ (argv = <<<<"-">>, MYLIMIT>> /\ rhost = Hostent("AF_INET", <<203, 0, 113, 5>>)) =>
              /\ written[1].line = <<"-","2","0","3",".","0",".","1","1","3",".","5","\n">>
              /\ written[1].path \in
                   { <<"/","p","r","o","c","/","n","e","t","/","x","t","_","r","e","c","e","n","t","/","M","Y","L","I","M","I","T">>,
                     <<"/","p","r","o","c","/","n","e","t","/","i","p","t","_","r","e","c","e","n","t","/","M","Y","L","I","M","I","T">> }

C2_Witness ==
    /\ Completed
    /\ argv = <<<<"-">>, MYLIMIT>>
    /\ rhostname = TEXT4_A
    /\ Len(written) = 1
    /\ written[1].line = <<"-","2","0","3",".","0",".","1","1","3",".","5","\n">>

\* C3: the address of every directive line written is a dotted-quad IPv4
\* address: when resolution yields an address whose family is not IPv4 the
\* invocation fails and writes nothing.
C3_OnlyIPv4Written ==
    /\ \A i \in DOMAIN written :
         /\ written[i].addr.h_addrtype = "AF_INET"
         /\ IsDottedQuad(SubSeq(written[i].line, 2, Len(written[i].line) - 1))
    /\ (Completed /\ rhost.h_addrtype = "AF_INET6") =>
         (ret = PAM_SESSION_ERR /\ written = <<>>)

\* C4: the path opened for writing is the xt_recent path of the list when the
\* probe finds an entry there and the ipt_recent path when it does not; the
\* selection itself never fails the invocation, and a path that cannot be
\* opened fails it with the file-open error and no write.
C4_PathSelection ==
    /\ \A i \in Calls("fopen") :
         \E j \in Calls("access") :
            /\ j < i
            /\ events[j].arg = NewPath
            /\ events[i].arg = IF events[j].ok THEN NewPath ELSE LegacyPath
    /\ op = "open" =>
         \A k \in DOMAIN written : \E i \in Calls("fopen") : written[k].path = events[i].arg
    /\ (Completed /\ events # <<>>) =>
         /\ LastEvent.call # "access"
         /\ (LastEvent.call = "fopen") =>
              /\ ~LastEvent.ok
              /\ ret = PAM_SESSION_ERR
              /\ syslog.msg = "can't open %s: %s"
              /\ written = <<>>

C4_Witness ==
    /\ Completed
    /\ \E j \in Calls("access") : ~events[j].ok
    /\ LastEvent.call = "fopen"
    /\ LastEvent.arg = LegacyPath
    /\ ~LastEvent.ok

\* C5: an argument count outside {1,2}, and otherwise a first argument that
\* is neither "+" nor "-", makes the open hook return the session error with
\* no probe, no lookup, no open and no write; the count is checked first.
C5_InvalidArgsRejected ==
    /\ (op = "open" /\ Len(argv) \notin {1, 2}) =>
         /\ pc = "idle"
         /\ ret = PAM_SESSION_ERR
         /\ syslog.msg = "expected 1 or 2 arguments but got %d"
         /\ events = <<>>
         /\ written = <<>>
    /\ (op = "open" /\ Len(argv) \in {1, 2} /\ argv[1] \notin Markers) =>
         /\ pc = "idle"
         /\ ret = PAM_SESSION_ERR
         /\ syslog.msg = "expected \"%s\" or \"%s\" as argument, got \"%s\""
         /\ events = <<>>
         /\ written = <<>>

C5_Witness ==
    /\ Completed
    /\ Len(argv) = 3
    /\ argv[1] \notin Markers
    /\ ret = PAM_SESSION_ERR
    /\ syslog.msg = "expected 1 or 2 arguments but got %d"

\* C6: with valid arguments, a remote-host identifier that is absent (null)
\* or empty fails the invocation with the missing-host error, without any
\* resolution attempt and without a write.
C6_MissingHost ==
    (op = "open" /\ ValidArgv /\ rhostname \in {NULL, <<>>}) =>
        /\ Queries = <<>>
        /\ written = <<>>
        /\ pc = "idle"
        /\ ret = PAM_SESSION_ERR
        /\ syslog.msg = "no PAM_RHOST, not a network login"

\* the name the second lookup is to be made with, from the textual rules
StartsWith(s, pre) == Len(s) >= Len(pre) /\ SubSeq(s, 1, Len(pre)) = pre
FfffAnyCase == {<<a, b, c, d, ":">> : a \in {"f","F"}, b \in {"f","F"}, c \in {"f","F"}, d \in {"f","F"}}
StartsWithFfff(s) == \E v \in FfffAnyCase : StartsWith(s, v)
Retry(s) ==
    IF StartsWith(s, <<":",":">>)
    THEN LET r == SubSeq(s, 3, Len(s))
         IN IF StartsWithFfff(r) THEN SubSeq(r, 6, Len(r)) ELSE r
    ELSE IF StartsWith(s, <<"0",":","0",":","0",":","0",":","0",":">>)
    THEN LET r == SubSeq(s, 11, Len(s))
         IN IF StartsWith(r, <<"0",":">>) THEN SubSeq(r, 3, Len(r))
            ELSE IF StartsWithFfff(r) THEN SubSeq(r, 6, Len(r))
            ELSE r
    ELSE NULL

\* the lines an invocation with the literal 203.0.113.5 can write
LiteralLines ==
    { argv[1] \o <<"2","0","3",".","0",".","1","1","3",".","5","\n">>,
      argv[1] \o <<":",":","f","f","f","f",":","2","0","3",".","0",".","1","1","3",".","5","\n">> }

MixedNotation ==
    { <<":",":","f","f","f","f",":","2","0","3",".","0",".","1","1","3",".","5">>,
      <<"0",":","0",":","0",":","0",":","0",":","f","f","f","f",":","2","0","3",".","0",".","1","1","3",".","5">> }

\* C7: a second lookup is made only when the first lookup of the identifier
\* as given fails and the identifier holds a colon and starts with "::" or
\* "0:0:0:0:0:"; the name looked up then is the identifier without "::" and a
\* following "ffff:", or without "0:0:0:0:0:" and a following "0:" or "ffff:"
\* (letters in either case), so "::ffff:A" and "0:0:0:0:0:ffff:A" write what
\* the literal A writes; when the lookups fail the invocation fails with the
\* resolution error and writes nothing.
C7_ResolutionPipeline ==
    (op = "open" /\ Queries # <<>> /\ pc # "fallback") =>
        /\ Queries[1].arg = rhostname
        /\ Len(Queries) <= 2
        /\ Len(Queries) = 2 <=>
             (~Queries[1].ok /\ (\E i \in DOMAIN rhostname : rhostname[i] = ":")
                /\ Retry(rhostname) # NULL)
        /\ Len(Queries) = 2 => Queries[2].arg = Retry(rhostname)
        /\ ~Queries[Len(Queries)].ok =>
             /\ pc = "idle"
             /\ ret = PAM_SESSION_ERR
             /\ syslog.msg = "could not lookup address for %s: %d"
             /\ written = <<>>
        /\ (rhostname \in MixedNotation /\ ~Queries[1].ok) =>
             /\ Queries[2].arg = <<"2","0","3",".","0",".","1","1","3",".","5">>
             /\ \A k \in DOMAIN written : written[k].line \in LiteralLines

C7_Witness ==
    /\ Completed
    /\ rhostname = <<"0",":","0",":","0",":","0",":","0",":","f","f","f","f",":","2","0","3",".","0",".","1","1","3",".","5">>
    /\ Len(Queries) = 2
    /\ Len(written) = 1
    /\ written[1].line = <<"+","2","0","3",".","0",".","1","1","3",".","5","\n">>

\* a directive line: marker, address text, newline
WellFormed(w) ==
    /\ Len(w.line) >= 3
    /\ w.line[1] = (IF w.remove = 1 THEN "-" ELSE "+")
    /\ w.line[Len(w.line)] = "\n"
    /\ \A k \in 2..(Len(w.line) - 1) : w.line[k] \notin {"\n", "+", "-"}
    /\ SubSeq(w.line, 2, Len(w.line) - 1) = Presentation(w.addr)

\* C8: what an invocation writes does not depend on the invocation before it:
\* two successive invocations that write for the same action and the same
\* address write identical lines, each one a marker, the address text and a
\* newline, and each invocation writes at most one line.
C8_RepeatableWrites ==
    /\ Len(written) <= 1
    /\ Len(prevWritten) <= 1
    /\ \A i \in DOMAIN written : WellFormed(written[i])
    /\ \A j \in DOMAIN prevWritten : WellFormed(prevWritten[j])
    /\ \A i \in DOMAIN written : \A j \in DOMAIN prevWritten :
         (written[i].remove = prevWritten[j].remove /\ written[i].addr = prevWritten[j].addr)
            => written[i].line = prevWritten[j].line

C8_Witness ==
    /\ Completed
    /\ Len(written) = 1
    /\ Len(prevWritten) = 1
    /\ written[1].remove = 0
    /\ prevWritten[1].remove = 0
    /\ written[1].addr = Hostent("AF_INET", Addr4_A)
    /\ prevWritten[1].addr = Hostent("AF_INET", Addr4_A)
    /\ written[1].line = prevWritten[1].line

\* C9: the close hook returns success for every argument vector and does
\* nothing else: no probe, no lookup, no open, no log record and no write.
C9_CloseIsNoop ==
    [][op' = "close" =>
         /\ ret' = PAM_SUCCESS
         /\ events' = <<>>
         /\ syslog' = NoLog
         /\ written' = written
         /\ prevWritten' = prevWritten
         /\ pc' = "idle"]_vars

C9_Witness ==
    /\ op = "close"
    /\ Len(argv) = 3
    /\ ret = PAM_SUCCESS
    /\ Len(written) = 1

\* C10 as stated: within one invocation the address is resolved before the
\* path is selected, and the path is selected before the write.
C10_ResolveBeforeProbe ==
    /\ \A i \in Calls("access") : \E j \in Calls("gethostbyname") : j < i
    /\ \A i \in Calls("fclose") : \E j \in Calls("access") : j < i

\* C10: within one invocation the path is selected (the existence probe)
\* before the address is resolved, and the address is resolved before the
\* pseudo-file is opened and written; no lookup is made before the probe.
C10_ProbeBeforeResolve ==
    /\ \A i \in Calls("gethostbyname") : \E j \in Calls("access") : j < i
    /\ \A i \in Calls("fopen") :
         \E j \in Calls("gethostbyname") : j < i /\ events[j].ok
    /\ \A i \in Calls("fclose") : \E j \in Calls("fopen") : j < i /\ events[j].ok
    /\ Cardinality(Calls("access")) <= 1

C10_Witness ==
    /\ Completed
    /\ Len(written) = 1
    /\ Calls("access") = {1}
    /\ Calls("fclose") = {Len(events)}

====
